---- MODULE Spec2Model ----
(***************************************************************************)
(* Model of the transfinite Surface base class                             *)
(* (src/src/transfinite/surface.cc).                                       *)
(*                                                                         *)
(* Vectors (ribbons_, corner_data_, sds, blf) are functions over 0..n-1,   *)
(* so indices are the 0-based indices of the C++ code.                     *)
(*                                                                         *)
(* Geometry: points have integer coordinates and norm() is the SQUARED     *)
(* Euclidean length; the code only compares norms with <, and squaring is  *)
(* strictly monotone on the non-negative reals.  Real numbers (distances,  *)
(* parameters, blend weights) are exact rationals <<num, den>> in lowest   *)
(* terms with den > 0, so floating-point rounding is not modelled.         *)
(*                                                                         *)
(* A curve is known by what Surface reads from it: eval(0.0) and           *)
(* eval(1.0).  Each ribbon holds a curve object of its own (no curve       *)
(* object is shared between two ribbons).                                  *)
(***************************************************************************)
EXTENDS Integers, Sequences, FiniteSets, TLC

VARIABLES
  n_,            \* Surface::n_
  ribbons_,      \* Surface::ribbons_ : vector of shared_ptr<Ribbon>
  corner_data_,  \* Surface::corner_data_ : vector of CornerData
  use_gamma_,    \* Surface::use_gamma_
  lastOp,        \* the last call made on the Surface: [op, arg]
  reversed,      \* indices whose curve the last setupLoop() call reversed
  fault,         \* "none", or the undefined behaviour the last call ran into
  sds,           \* the (s,d) pairs handed to the blend functions
  result         \* what the last const call returned: [fn, arg, value]

vars == <<n_, ribbons_, corner_data_, use_gamma_, lastOp, reversed, fault, sds, result>>

(***************************************************************************)
(* Bounds of the model.                                                    *)
(***************************************************************************)
MaxN == 3
NumPoints == 3
MaxSides == 4
MaxDist == 3

(***************************************************************************)
(* Vectors.                                                                *)
(***************************************************************************)
Size(v) == Cardinality(DOMAIN v)

EmptyVec == [k \in {} |-> 0]

Indices(n) == 0..(n - 1)

(***************************************************************************)
(* Rational numbers.                                                       *)
(***************************************************************************)
Abs(a) == IF a < 0 THEN -a ELSE a

RECURSIVE GCD(_, _)
GCD(a, b) == IF b = 0 THEN a ELSE GCD(b, a % b)

\* n/d in lowest terms; <<1, 0>> is +infinity and <<0, 0>> is NaN.
Rat(n, d) ==
  LET g == GCD(Abs(n), Abs(d))
      sgn == IF d < 0 THEN -1 ELSE 1
  IN IF g = 0 THEN <<0, 0>> ELSE <<(sgn * n) \div g, (sgn * d) \div g>>

Zero == <<0, 1>>
One == <<1, 1>>
Two == <<2, 1>>

RAdd(a, b) == Rat(a[1] * b[2] + b[1] * a[2], a[2] * b[2])
RSub(a, b) == Rat(a[1] * b[2] - b[1] * a[2], a[2] * b[2])
RMul(a, b) == Rat(a[1] * b[1], a[2] * b[2])
RDiv(a, b) == Rat(a[1] * b[2], a[2] * b[1])
RLess(a, b) == a[1] * b[2] < b[1] * a[2]
RLeq(a, b) == a[1] * b[2] <= b[1] * a[2]
RMin(a, b) == IF RLess(b, a) THEN b ELSE a
RMax(a, b) == IF RLess(a, b) THEN b ELSE a

RECURSIVE RSum(_, _)
RSum(v, n) == IF n = 0 THEN Zero ELSE RAdd(RSum(v, n - 1), v[n - 1])

(***************************************************************************)
(* Points and curves.                                                      *)
(***************************************************************************)
PointList == << <<0, 0>>, <<2, 0>>, <<0, 1>>, <<3, 3>>, <<1, 4>> >>

Points == {PointList[k] : k \in 1..NumPoints}

norm(v) == v[1] * v[1] + v[2] * v[2]

Minus(p, q) == <<p[1] - q[1], p[2] - q[2]>>

min(a, b) == IF b < a THEN b ELSE a

Curves == [start : Points, end : Points]

NoCurve == [start |-> <<0, 0>>, end |-> <<0, 0>>]

\* BSCurve::eval(t) at the two parameters Surface asks for.
CurveEval(c, t) == IF t = Zero THEN c.start ELSE c.end

\* BSCurve::reverse(): the curve run the other way.
reverse(c) == [start |-> c.end, end |-> c.start]

\* BSCurve::normalize(): reparametrization to [0,1]; the end points stay.
normalize(c) == [start |-> c.start, end |-> c.end]

\* The first derivative eval(t, 1, der) stores in der[1]: a symbol of
\* the curve and the parameter.
CurveDer(c, t) == [d1of |-> c, at |-> t]

Neg(v) == [neg |-> v]

ZeroVector == [zero |-> TRUE]

(***************************************************************************)
(* Ribbons.  A neighbour handle is empty (never bound), live (it refers to  *)
(* the ribbon object now stored at ribbons_[idx]) or stale (it refers to a *)
(* ribbon object that ribbons_ no longer stores).                          *)
(***************************************************************************)
EmptyHandle == [kind |-> "empty", idx |-> 0]
StaleHandle == [kind |-> "stale", idx |-> 0]
Live(j) == [kind |-> "live", idx |-> j]

NullRibbon == [null |-> TRUE, curve |-> NoCurve, prev |-> EmptyHandle, next |-> EmptyHandle]

newRibbon == [null |-> FALSE, curve |-> NoCurve, prev |-> EmptyHandle, next |-> EmptyHandle]

RibbonSetCurve(r, c) == [r EXCEPT !.curve = c]

setNeighbors(r, p, n) == [r EXCEPT !.prev = Live(p), !.next = Live(n)]

\* Ribbon::eval(Point2D(s, d)): a symbol of the ribbon's curve and the
\* two parameters.
RibbonEval(r, s, d) == [curve |-> r.curve, s |-> s, d |-> d]

\* The ribbon object stored at slot i leaves ribbons_: every handle that
\* referred to it is stale from now on.
Expire(h, i) == IF h.kind = "live" /\ h.idx = i THEN StaleHandle ELSE h

Drop(ribs, i) ==
  [k \in DOMAIN ribs |->
     [ribs[k] EXCEPT !.prev = Expire(@, i), !.next = Expire(@, i)]]

next(i, n) == (i + 1) % n
prev(i, n) == (i + n - 1) % n

HasNull(ribs) == \E k \in DOMAIN ribs : ribs[k].null

(***************************************************************************)
(* Surface::Surface()                                                      *)
(***************************************************************************)
NoOp == [op |-> "Surface", arg |-> 0]
NoResult == [fn |-> "none", arg |-> 0, flag |-> TRUE, value |-> 0]

Constructed ==
  /\ n_ = 0
  /\ ribbons_ = EmptyVec
  /\ corner_data_ = EmptyVec
  /\ use_gamma_ = TRUE
  /\ lastOp = NoOp
  /\ reversed = {}
  /\ fault = "none"
  /\ sds = EmptyVec
  /\ result = NoResult

(***************************************************************************)
(* Surface::setGamma                                                       *)
(***************************************************************************)
setGamma(b) ==
  /\ fault = "none"
  /\ use_gamma_' = b
  /\ lastOp' = [op |-> "setGamma", arg |-> 0]
  /\ reversed' = {}
  /\ UNCHANGED <<n_, ribbons_, corner_data_, fault, sds, result>>

(***************************************************************************)
(* Surface::setCurve(i, curve)                                             *)
(***************************************************************************)
\* std::vector::resize(m): the first min(size, m) elements stay, new
\* elements are value-initialized (null shared_ptr).
ResizeRibbons(ribs, m) ==
  [k \in Indices(m) |-> IF k \in DOMAIN ribs THEN ribs[k] ELSE NullRibbon]

SetCurveRibbons(ribs, n, i, curve) ==
  LET sized == IF n <= i THEN ResizeRibbons(ribs, i + 1) ELSE ribs
  IN [Drop(sized, i) EXCEPT ![i] = RibbonSetCurve(newRibbon, curve)]

setCurve(i, curve) ==
  /\ fault = "none"
  /\ n_' = IF n_ <= i THEN i + 1 ELSE n_
  /\ ribbons_' = SetCurveRibbons(ribbons_, n_, i, curve)
  /\ lastOp' = [op |-> "setCurve", arg |-> 0]
  /\ reversed' = {}
  /\ UNCHANGED <<corner_data_, use_gamma_, fault, sds, result>>

(***************************************************************************)
(* Surface::setCurves(curves)                                              *)
(***************************************************************************)
SetCurvesRibbons(curves) ==
  [k \in DOMAIN curves |-> RibbonSetCurve(newRibbon, curves[k])]

setCurves(curves) ==
  /\ fault = "none"
  /\ ribbons_' = SetCurvesRibbons(curves)
  /\ n_' = Size(curves)
  /\ lastOp' = [op |-> "setCurves", arg |-> 0]
  /\ reversed' = {}
  /\ UNCHANGED <<corner_data_, use_gamma_, fault, sds, result>>

(***************************************************************************)
(* Surface::setupLoop()                                                    *)
(***************************************************************************)
\* Faulty variant: curve 0 is matched against the start of the next curve only.
ReverseFirst_startOnly(r, rn) ==
  norm(Minus(CurveEval(r.curve, Zero), CurveEval(rn.curve, Zero)))
    < norm(Minus(CurveEval(r.curve, One), CurveEval(rn.curve, Zero)))

\* The test of the i == 0 branch.
ReverseFirst(r, rn) ==
  LET r_start == CurveEval(r.curve, Zero)
      r_end == CurveEval(r.curve, One)
      rn_start == CurveEval(rn.curve, Zero)
      rn_end == CurveEval(rn.curve, One)
      end_to_start == norm(Minus(r_end, rn_start))
      end_to_end == norm(Minus(r_end, rn_end))
      start_to_start == norm(Minus(r_start, rn_start))
      start_to_end == norm(Minus(r_start, rn_end))
  IN min(start_to_start, start_to_end) < min(end_to_start, end_to_end)

\* Faulty variant: a tie reverses the curve.
ReverseNext_leq(r, rp) ==
  norm(Minus(CurveEval(r.curve, One), CurveEval(rp.curve, One)))
    <= norm(Minus(CurveEval(r.curve, Zero), CurveEval(rp.curve, One)))

\* The test of the i > 0 branch.
ReverseNext(r, rp) ==
  LET r_start == CurveEval(r.curve, Zero)
      r_end == CurveEval(r.curve, One)
      rp_end == CurveEval(rp.curve, One)
  IN norm(Minus(r_end, rp_end)) < norm(Minus(r_start, rp_end))

\* One pass of the second for loop, on st = [ribs, rev]: the ribbons as
\* the earlier passes left them, and the indices reversed so far.
LoopStep(st, n, i) ==
  LET bound == [st.ribs EXCEPT ![i] = setNeighbors(@, prev(i, n), next(i, n))]
      rp == bound[prev(i, n)]
      rn == bound[next(i, n)]
      flip == IF i = 0 THEN ReverseFirst(bound[i], rn) ELSE ReverseNext(bound[i], rp)
  IN IF flip
       THEN [ribs |-> [bound EXCEPT ![i].curve = normalize(reverse(@))],
             rev |-> st.rev \cup {i}]
       ELSE [ribs |-> bound, rev |-> st.rev]

RECURSIVE LoopFrom(_, _, _)
LoopFrom(st, n, i) ==
  IF i >= n THEN st ELSE LoopFrom(LoopStep(st, n, i), n, i + 1)

NormalizeAll(ribs) ==
  [k \in DOMAIN ribs |-> [ribs[k] EXCEPT !.curve = normalize(@)]]

SetupLoopResult(ribs, n) ==
  LoopFrom([ribs |-> NormalizeAll(ribs), rev |-> {}], n, 0)

setupLoop ==
  /\ fault = "none"
  /\ lastOp' = [op |-> "setupLoop", arg |-> 0]
  /\ IF HasNull(ribbons_)
       THEN /\ fault' = "null_ribbon"
            /\ UNCHANGED <<ribbons_, reversed>>
       ELSE /\ ribbons_' = SetupLoopResult(ribbons_, n_).ribs
            /\ reversed' = SetupLoopResult(ribbons_, n_).rev
            /\ UNCHANGED fault
  /\ UNCHANGED <<n_, corner_data_, use_gamma_, sds, result>>

(***************************************************************************)
(* Surface::updateCorner, Surface::updateCorners                           *)
(***************************************************************************)
step == Rat(1, 10000)

\* (d2 - d1) / step
FiniteDiff(d2, d1) == [minuend |-> d2, subtrahend |-> d1, over |-> step]

\* A value-initialized CornerData.
DefaultCorner ==
  [point |-> <<0, 0>>, tangent1 |-> ZeroVector, tangent2 |-> ZeroVector,
   twist1 |-> ZeroVector, twist2 |-> ZeroVector]

\* Faulty variant: the second finite difference goes to twist2.
updateCorner_twist2(cd, ribs, n, i) ==
  LET ip == next(i, n)
  IN [cd EXCEPT ![i] =
        [@ EXCEPT !.point = CurveEval(ribs[i].curve, One),
                  !.tangent1 = Neg(CurveDer(ribs[i].curve, One)),
                  !.tangent2 = CurveDer(ribs[ip].curve, Zero),
                  !.twist1 = FiniteDiff(RibbonEval(ribs[i], RSub(One, step), One),
                                        RibbonEval(ribs[i], One, One)),
                  !.twist2 = FiniteDiff(RibbonEval(ribs[ip], step, One),
                                        RibbonEval(ribs[ip], Zero, One))]]

\* The assignments of updateCorner(i), in program order.
updateCorner(cd, ribs, n, i) ==
  LET ip == next(i, n)
      a1 == [cd[i] EXCEPT !.point = CurveEval(ribs[i].curve, One)]
      a2 == [a1 EXCEPT !.tangent1 = Neg(CurveDer(ribs[i].curve, One))]
      a3 == [a2 EXCEPT !.tangent2 = CurveDer(ribs[ip].curve, Zero)]
      a4 == [a3 EXCEPT !.twist1 =
               FiniteDiff(RibbonEval(ribs[i], RSub(One, step), One),
                          RibbonEval(ribs[i], One, One))]
      a5 == [a4 EXCEPT !.twist1 =
               FiniteDiff(RibbonEval(ribs[ip], step, One),
                          RibbonEval(ribs[ip], Zero, One))]
  IN [cd EXCEPT ![i] = a5]

\* Faulty variant: a resize that only ever grows the vector.
ResizeCorners_grow(cd, m) ==
  [k \in Indices(IF Size(cd) > m THEN Size(cd) ELSE m) |->
     IF k \in DOMAIN cd THEN cd[k] ELSE DefaultCorner]

ResizeCorners(cd, m) ==
  [k \in Indices(m) |-> IF k \in DOMAIN cd THEN cd[k] ELSE DefaultCorner]

RECURSIVE CornersFrom(_, _, _, _)
CornersFrom(cd, ribs, n, i) ==
  IF i >= n THEN cd ELSE CornersFrom(updateCorner(cd, ribs, n, i), ribs, n, i + 1)

updateCorners(cd, ribs, n) == CornersFrom(ResizeCorners(cd, n), ribs, n, 0)

(***************************************************************************)
(* Surface::update()                                                       *)
(***************************************************************************)
update ==
  /\ fault = "none"
  /\ lastOp' = [op |-> "update", arg |-> 0]
  /\ reversed' = {}
  /\ IF HasNull(ribbons_)
       THEN /\ fault' = "null_ribbon"
            /\ UNCHANGED corner_data_
       ELSE /\ corner_data_' = updateCorners(corner_data_, ribbons_, n_)
            /\ UNCHANGED fault
  /\ UNCHANGED <<n_, ribbons_, use_gamma_, sds, result>>

(***************************************************************************)
(* Surface::update(i)                                                      *)
(***************************************************************************)
\* The first undefined step of update(i), in program order: a null
\* ribbons_[k] dereferenced, or corner_data_[k] indexed with
\* k >= corner_data_.size().
UpdateFault(cd, ribs, n, i) ==
  LET p == prev(i, n)
  IN CASE ribs[i].null -> "null_ribbon"
       [] ribs[p].null -> "null_ribbon"
       [] p \notin DOMAIN cd -> "corner_out_of_range"
       [] i \notin DOMAIN cd -> "corner_out_of_range"
       [] ribs[next(i, n)].null -> "null_ribbon"
       [] OTHER -> "none"

update_i(i) ==
  /\ fault = "none"
  /\ i < n_
  /\ lastOp' = [op |-> "update_i", arg |-> i]
  /\ reversed' = {}
  /\ fault' = UpdateFault(corner_data_, ribbons_, n_, i)
  /\ IF UpdateFault(corner_data_, ribbons_, n_, i) = "none"
       THEN corner_data_' =
              updateCorner(updateCorner(corner_data_, ribbons_, n_, prev(i, n_)),
                           ribbons_, n_, i)
       ELSE UNCHANGED corner_data_
  /\ UNCHANGED <<n_, ribbons_, use_gamma_, sds, result>>

(***************************************************************************)
(* The Surface driven by a client: any sequence of calls.  The client      *)
(* hands in curves between the first two points.                           *)
(***************************************************************************)
ClientCurves == {c \in Curves : c.start \in {PointList[1], PointList[2]}
                                /\ c.end \in {PointList[1], PointList[2]}
                                /\ c.start # c.end}

CurveVectors(S, m) == UNION {[Indices(k) -> S] : k \in 0..m}

Init == Constructed

Next ==
  \/ \E i \in Indices(MaxN), c \in ClientCurves : setCurve(i, c)
  \/ \E cv \in CurveVectors(ClientCurves, MaxN) : setCurves(cv)
  \/ setupLoop
  \/ update
  \/ \E i \in Indices(MaxN) : update_i(i)

Spec == Init /\ [][Next]_vars

(***************************************************************************)
(* C6: ribbons_.size() == n_ after any sequence of calls, and when         *)
(* update() has just returned, corner_data_.size() == n_ as well.          *)
(***************************************************************************)
C6_SizesAgree ==
  /\ Size(ribbons_) = n_
  /\ (lastOp.op = "update" /\ fault = "none") => Size(corner_data_) = n_

\* update() has returned on a surface of at least two ribbons.
C6_Witness ==
  /\ lastOp.op = "update"
  /\ fault = "none"
  /\ n_ >= 2
  /\ Size(ribbons_) = n_
  /\ Size(corner_data_) = n_

(***************************************************************************)
(* C8: updateCorner(i) never writes twist2 (it keeps its value-initialized *)
(* content), and the corners update() or update(i) has just recomputed     *)
(* hold point, tangent1, tangent2 and, in twist1, the finite difference    *)
(* taken on ribbon next(i) near s = 0.                                     *)
(***************************************************************************)
TwistAtEnd(r) ==
  FiniteDiff(RibbonEval(r, RSub(One, step), One), RibbonEval(r, One, One))

TwistAtStart(r) ==
  FiniteDiff(RibbonEval(r, step, One), RibbonEval(r, Zero, One))

JustUpdated ==
  CASE lastOp.op = "update" -> Indices(n_)
    [] lastOp.op = "update_i" -> {prev(lastOp.arg, n_), lastOp.arg}
    [] OTHER -> {}

C8_CornerWrites ==
  /\ \A k \in DOMAIN corner_data_ : corner_data_[k].twist2 = ZeroVector
  /\ fault = "none" =>
       \A k \in JustUpdated :
         /\ corner_data_[k].point = CurveEval(ribbons_[k].curve, One)
         /\ corner_data_[k].tangent1 = Neg(CurveDer(ribbons_[k].curve, One))
         /\ corner_data_[k].tangent2 = CurveDer(ribbons_[next(k, n_)].curve, Zero)
         /\ corner_data_[k].twist1 = TwistAtStart(ribbons_[next(k, n_)])

\* A corner was recomputed whose two finite differences differ: the one
\* on ribbon k near s = 1 is not what twist1 holds.
C8_Witness ==
  /\ fault = "none"
  /\ n_ >= 2
  /\ \E k \in JustUpdated :
       /\ TwistAtEnd(ribbons_[k]) # TwistAtStart(ribbons_[next(k, n_)])
       /\ corner_data_[k].twist1 = TwistAtStart(ribbons_[next(k, n_)])
       /\ corner_data_[k].twist2 = ZeroVector

(***************************************************************************)
(* C9: update(i), i < n_, indexes corner_data_ only below its size.        *)
(***************************************************************************)
C9_UpdateInRange ==
  ~(lastOp.op = "update_i" /\ fault = "corner_out_of_range")

(***************************************************************************)
(* C10: every neighbour handle held by a ribbon of ribbons_ refers to a    *)
(* ribbon that ribbons_ stores now, and after setupLoop() ribbon i's       *)
(* handles refer to the ribbons at prev(i) and next(i).                    *)
(***************************************************************************)
C10_HandlesCurrent ==
  \A k \in DOMAIN ribbons_ :
    /\ ribbons_[k].prev.kind # "stale"
    /\ ribbons_[k].next.kind # "stale"
    /\ (lastOp.op = "setupLoop" /\ fault = "none") =>
         /\ ribbons_[k].prev = Live(prev(k, n_))
         /\ ribbons_[k].next = Live(next(k, n_))

(***************************************************************************)
(* The client of setupLoop(): it sets its curves once, any curves between  *)
(* the points of the model, and then calls setupLoop() any number of       *)
(* times.                                                                  *)
(***************************************************************************)
NextLoop ==
  \/ /\ lastOp = NoOp
     /\ \E cv \in CurveVectors(Curves, MaxN) : setCurves(cv)
  \/ setupLoop

SpecLoop == Init /\ [][NextLoop]_vars

\* The curves form a closed loop in index order, whatever their
\* orientations: curve i joins corner Q[i] and corner Q[next(i)], the
\* corners pairwise distinct.
IsLoop(ribs, n) ==
  \E Q \in [Indices(n) -> Points] :
    /\ \A i, j \in Indices(n) : i # j => Q[i] # Q[j]
    /\ \A i \in Indices(n) :
         {ribs[i].curve.start, ribs[i].curve.end} = {Q[i], Q[next(i, n)]}

\* The end of every curve is the start of the next one.
Chained(curve, n) ==
  \A i \in Indices(n) : curve[i].end = curve[next(i, n)].start

CurvesNow == [i \in Indices(n_) |-> ribbons_[i].curve]

\* The curves as they were when the last setupLoop() call began.
CurvesBefore ==
  [i \in Indices(n_) |->
     IF i \in reversed THEN reverse(ribbons_[i].curve) ELSE ribbons_[i].curve]

(***************************************************************************)
(* C1: for N >= 2 curves that form a closed loop in index order, stored in *)
(* any orientations, after setupLoop() the end of every curve i is the     *)
(* start of curve next(i), the pair (N-1, 0) included.                     *)
(***************************************************************************)
C1_LoopOriented ==
  (/\ lastOp.op = "setupLoop"
   /\ fault = "none"
   /\ n_ >= 2
   /\ IsLoop(ribbons_, n_))
  => Chained(CurvesNow, n_)

\* setupLoop() had to reverse curve 0 and a later curve of a loop of
\* three curves.
C1_Witness ==
  /\ lastOp.op = "setupLoop"
  /\ fault = "none"
  /\ n_ = 3
  /\ IsLoop(ribbons_, n_)
  /\ 0 \in reversed
  /\ reversed # {0}
  /\ Chained(CurvesNow, n_)

(***************************************************************************)
(* C5: for N >= 3, when every curve's end is the next curve's start        *)
(* before setupLoop() is called, the call reverses no curve (so the same   *)
(* holds of every further call).                                           *)
(***************************************************************************)
C5_Idempotent ==
  (/\ lastOp.op = "setupLoop"
   /\ fault = "none"
   /\ n_ >= 3
   /\ Chained(CurvesBefore, n_))
  => reversed = {}

\* setupLoop() ran on a chained loop of three curves, one of them of
\* zero length (both distances of its test tie), and left it as it was.
C5_Witness ==
  /\ lastOp.op = "setupLoop"
  /\ fault = "none"
  /\ n_ = 3
  /\ Chained(CurvesBefore, n_)
  /\ \E i \in Indices(n_) : ribbons_[i].curve.start = ribbons_[i].curve.end
  /\ \E i \in Indices(n_) : ribbons_[i].curve.start # ribbons_[i].curve.end
  /\ reversed = {}
  /\ CurvesNow = CurvesBefore

(***************************************************************************)
(* Surface::gamma, Surface::sideInterpolant                                *)
(***************************************************************************)
\* Faulty variant: a sign slip in the denominator.
gamma_minus(d, use_gamma) ==
  IF use_gamma THEN RDiv(d, RSub(RMul(Two, d), One)) ELSE d

gamma(d, use_gamma) ==
  IF use_gamma THEN RDiv(d, RAdd(RMul(Two, d), One)) ELSE d

\* Faulty variant: the two coordinates of the Point2D are swapped.
sideInterpolant_swapped(ribs, i, si, di, use_gamma) ==
  RibbonEval(ribs[i], RMax(gamma(di, use_gamma), Zero), RMin(RMax(si, Zero), One))

sideInterpolant(ribs, i, si, di, use_gamma) ==
  LET si1 == RMin(RMax(si, Zero), One)
      di1 == RMax(gamma(di, use_gamma), Zero)
  IN RibbonEval(ribs[i], si1, di1)

(***************************************************************************)
(* Surface::blendCorner, Surface::blendSideSingular.  A call returns       *)
(* [w, pows]: the weights blf, and the arguments x of every                *)
(* std::pow(x, -2) it evaluated.                                           *)
(***************************************************************************)
epsilon == Rat(1, 1)

\* std::pow(x, -2)
InvSq(x) == RDiv(One, RMul(x, x))

\* sd[1] < epsilon
Close(sd) == RLess(sd[2], epsilon)

CloseToBoundary(v) == Cardinality({k \in DOMAIN v : Close(v[k])})

\* Faulty variant: the corner before a boundary side is blended against the
\* side before it.
blendCorner_prev(v, n) ==
  LET close_to_boundary == CloseToBoundary(v)
      raw == [i \in Indices(n) |-> InvSq(RMul(v[i][2], v[next(i, n)][2]))]
  IN IF close_to_boundary > 0
       THEN [w |-> [i \in Indices(n) |->
                      IF close_to_boundary > 1
                        THEN IF Close(v[i]) /\ Close(v[next(i, n)]) THEN One ELSE Zero
                        ELSE IF Close(v[i])
                          THEN RDiv(InvSq(v[next(i, n)][2]),
                                    RAdd(InvSq(v[next(i, n)][2]), InvSq(v[prev(i, n)][2])))
                        ELSE IF Close(v[next(i, n)])
                          THEN RDiv(InvSq(v[i][2]),
                                    RAdd(InvSq(v[i][2]), InvSq(v[prev(i, n)][2])))
                        ELSE Zero],
             pows |-> {}]
       ELSE [w |-> [i \in Indices(n) |-> RDiv(raw[i], RSum(raw, n))],
             pows |-> {RMul(v[i][2], v[next(i, n)][2]) : i \in Indices(n)}]

blendCorner(v, n) ==
  LET close_to_boundary == CloseToBoundary(v)
      one(i) == LET ip == next(i, n)
                IN IF Close(v[i])
                     THEN LET tmp == InvSq(v[ip][2])
                          IN [w |-> RDiv(tmp, RAdd(tmp, InvSq(v[prev(i, n)][2]))),
                              pows |-> {v[ip][2], v[prev(i, n)][2]}]
                   ELSE IF Close(v[ip])
                     THEN LET tmp == InvSq(v[i][2])
                          IN [w |-> RDiv(tmp, RAdd(tmp, InvSq(v[next(ip, n)][2]))),
                              pows |-> {v[i][2], v[next(ip, n)][2]}]
                   ELSE [w |-> Zero, pows |-> {}]
      raw == [i \in Indices(n) |-> InvSq(RMul(v[i][2], v[next(i, n)][2]))]
      denominator == RSum(raw, n)
  IN IF close_to_boundary > 0
       THEN IF close_to_boundary > 1
              THEN [w |-> [i \in Indices(n) |->
                             IF Close(v[i]) /\ Close(v[next(i, n)]) THEN One ELSE Zero],
                    pows |-> {}]
              ELSE [w |-> [i \in Indices(n) |-> one(i).w],
                    pows |-> UNION {one(i).pows : i \in Indices(n)}]
       ELSE [w |-> [i \in Indices(n) |-> RDiv(raw[i], denominator)],
             pows |-> {RMul(v[i][2], v[next(i, n)][2]) : i \in Indices(n)}]

\* Faulty variant: every boundary side gets the whole weight.
blendSideSingular_unsplit(v) ==
  LET raw == [i \in DOMAIN v |-> InvSq(v[i][2])]
  IN IF CloseToBoundary(v) > 0
       THEN [w |-> [i \in DOMAIN v |-> IF Close(v[i]) THEN One ELSE Zero],
             pows |-> {}]
       ELSE [w |-> [i \in DOMAIN v |-> RDiv(raw[i], RSum(raw, Size(v)))],
             pows |-> {v[i][2] : i \in DOMAIN v}]

blendSideSingular(v) ==
  LET close_to_boundary == CloseToBoundary(v)
      blend_val == RDiv(One, Rat(close_to_boundary, 1))
      raw == [i \in DOMAIN v |-> InvSq(v[i][2])]
      denominator == RSum(raw, Size(v))
  IN IF close_to_boundary > 0
       THEN [w |-> [i \in DOMAIN v |-> IF Close(v[i]) THEN blend_val ELSE Zero],
             pows |-> {}]
       ELSE [w |-> [i \in DOMAIN v |-> RDiv(raw[i], denominator)],
             pows |-> {v[i][2] : i \in DOMAIN v}]

(***************************************************************************)
(* Calls of the const members on a surface that is set up: n curves round  *)
(* a ring of points, setCurves(), setupLoop(), update().  The caller holds *)
(* one (s,d) pair per side.                                                *)
(***************************************************************************)
Distances == {Rat(k, 2) : k \in 0..MaxDist}

Params == {Rat(-1, 2), Zero, Rat(1, 2), One, Rat(3, 2)}

RingCurves(n) ==
  [i \in Indices(n) |-> [start |-> PointList[i + 1], end |-> PointList[next(i, n) + 1]]]

SetUp(n) ==
  /\ n_ = n
  /\ ribbons_ = SetupLoopResult(SetCurvesRibbons(RingCurves(n)), n).ribs
  /\ corner_data_ = updateCorners(EmptyVec, ribbons_, n)
  /\ use_gamma_ = TRUE
  /\ lastOp = [op |-> "update", arg |-> 0]
  /\ reversed = {}
  /\ fault = "none"
  /\ result = NoResult

Call(fn, i, value) ==
  /\ fault = "none"
  /\ result' = [fn |-> fn, arg |-> i, flag |-> use_gamma_, value |-> value]
  /\ UNCHANGED <<n_, ribbons_, corner_data_, use_gamma_, lastOp, reversed, fault, sds>>

CallBlendCorner == Call("blendCorner", 0, blendCorner(sds, n_))

CallBlendSideSingular == Call("blendSideSingular", 0, blendSideSingular(sds))

CallGamma(i) == Call("gamma", i, gamma(sds[i][2], use_gamma_))

CallSideInterpolant(i) ==
  Call("sideInterpolant", i, sideInterpolant(ribbons_, i, sds[i][1], sds[i][2], use_gamma_))

\* The blend functions on any distances; they never read sd[0].
InitBlend ==
  \E n \in 1..MaxSides :
    \E dv \in [Indices(n) -> Distances] :
      /\ SetUp(n)
      /\ sds = [i \in Indices(n) |-> <<Rat(1, 2), dv[i]>>]

NextBlend ==
  \/ CallBlendCorner
  \/ CallBlendSideSingular

SpecBlend == InitBlend /\ [][NextBlend]_vars

\* Evaluation: the sides share one parameter s.
InitEval ==
  \E n \in 1..MaxN :
    \E s \in Params, dv \in [Indices(n) -> Distances] :
      /\ SetUp(n)
      /\ sds = [i \in Indices(n) |-> <<s, dv[i]>>]

NextEval ==
  \/ \E b \in BOOLEAN : setGamma(b)
  \/ \E i \in Indices(n_) : CallGamma(i)
  \/ \E i \in Indices(n_) : CallSideInterpolant(i)
  \/ CallBlendSideSingular

SpecEval == InitEval /\ [][NextEval]_vars

\* The corners whose two sides are both below epsilon.
BoundaryCorners == {i \in Indices(n_) : Close(sds[i]) /\ Close(sds[next(i, n_)])}

Ones(w) == {i \in DOMAIN w : w[i] = One}
Zeros(w) == {i \in DOMAIN w : w[i] = Zero}

(***************************************************************************)
(* C2 as stated: for N >= 3 the weights of blendCorner sum to 1 on every   *)
(* input, and with two or more sides below epsilon exactly one corner      *)
(* gets 1 and every other corner 0.                                        *)
(***************************************************************************)
C2_AlwaysSumsToOne ==
  (result.fn = "blendCorner" /\ n_ >= 3) =>
    /\ Size(result.value.w) = n_
    /\ RSum(result.value.w, n_) = One
    /\ CloseToBoundary(sds) >= 2 =>
         /\ Cardinality(Ones(result.value.w)) = 1
         /\ Cardinality(Zeros(result.value.w)) = n_ - 1

(***************************************************************************)
(* C2 amended: for N >= 3 the weights of blendCorner sum to 1 on interior  *)
(* inputs and on inputs with exactly one side below epsilon.  With two or  *)
(* more sides below epsilon corner i gets 1 when sides i and next(i) are   *)
(* both below epsilon and 0 otherwise, so the weights sum to the number of *)
(* such corners: to 1, with exactly one corner at 1, exactly when one      *)
(* corner lies between two sides below epsilon.                            *)
(***************************************************************************)
C2_SumsToBoundaryCorners ==
  (result.fn = "blendCorner" /\ n_ >= 3) =>
    /\ Size(result.value.w) = n_
    /\ CloseToBoundary(sds) <= 1 => RSum(result.value.w, n_) = One
    /\ CloseToBoundary(sds) >= 2 =>
         /\ Ones(result.value.w) = BoundaryCorners
         /\ Zeros(result.value.w) = Indices(n_) \ BoundaryCorners
         /\ RSum(result.value.w, n_) = Rat(Cardinality(BoundaryCorners), 1)
         /\ Cardinality(BoundaryCorners) = 1 =>
              /\ RSum(result.value.w, n_) = One
              /\ Cardinality(Ones(result.value.w)) = 1
              /\ Cardinality(Zeros(result.value.w)) = n_ - 1

\* blendCorner on a four-sided input with exactly two sides below
\* epsilon, adjacent ones: one corner has weight 1.
C2_Witness ==
  /\ result.fn = "blendCorner"
  /\ n_ = 4
  /\ CloseToBoundary(sds) = 2
  /\ Cardinality(BoundaryCorners) = 1
  /\ Ones(result.value.w) = BoundaryCorners
  /\ RSum(result.value.w, n_) = One

(***************************************************************************)
(* C3: the weights of blendSideSingular sum to 1; with k >= 1 sides below  *)
(* epsilon each of them gets 1/k and every other side 0; with none, side i *)
(* gets d_i^-2 over the sum of all d_j^-2; and no std::pow(x, -2) is       *)
(* evaluated at an x below epsilon.                                        *)
(***************************************************************************)
InverseSquares == [i \in DOMAIN sds |-> InvSq(sds[i][2])]

C3_SideWeights ==
  result.fn = "blendSideSingular" =>
    /\ DOMAIN result.value.w = DOMAIN sds
    /\ RSum(result.value.w, Size(sds)) = One
    /\ CloseToBoundary(sds) >= 1 =>
         \A i \in DOMAIN sds :
           result.value.w[i] =
             IF Close(sds[i]) THEN Rat(1, CloseToBoundary(sds)) ELSE Zero
    /\ CloseToBoundary(sds) = 0 =>
         \A i \in DOMAIN sds :
           RMul(result.value.w[i], RSum(InverseSquares, Size(sds))) = InverseSquares[i]
    /\ \A x \in result.value.pows : ~RLess(x, epsilon)

\* blendSideSingular on three sides, two of them below epsilon.
C3_Witness ==
  /\ result.fn = "blendSideSingular"
  /\ n_ = 3
  /\ CloseToBoundary(sds) = 2
  /\ \E i \in DOMAIN sds : result.value.w[i] = Rat(1, 2)
  /\ \E i \in DOMAIN sds : result.value.w[i] = Zero

(***************************************************************************)
(* C4: for a point on exactly one side i (d_i = 0, every other d_j not     *)
(* below epsilon) with s in [0,1], blendSideSingular gives side i weight 1 *)
(* and every other side 0, and sideInterpolant(i, s, 0) is                 *)
(* ribbons_[i]->eval(Point2D(s, 0)), with the gamma remap on or off.       *)
(***************************************************************************)
OnSide(i) ==
  /\ sds[i][2] = Zero
  /\ \A j \in DOMAIN sds : j # i => ~Close(sds[j])
  /\ RLeq(Zero, sds[i][1])
  /\ RLeq(sds[i][1], One)

C4_BoundaryInterpolation ==
  /\ result.fn = "blendSideSingular" =>
       \A i \in DOMAIN sds :
         OnSide(i) =>
           /\ result.value.w[i] = One
           /\ \A j \in DOMAIN sds : j # i => result.value.w[j] = Zero
  /\ result.fn = "sideInterpolant" =>
       (OnSide(result.arg) =>
          result.value = RibbonEval(ribbons_[result.arg], sds[result.arg][1], Zero))

\* sideInterpolant was called with the remap off for a point strictly
\* inside side 1 of three sides.
C4_Witness ==
  /\ result.fn = "sideInterpolant"
  /\ result.flag = FALSE
  /\ n_ = 3
  /\ result.arg = 1
  /\ OnSide(1)
  /\ sds[1][1] = Rat(1, 2)
  /\ result.value = RibbonEval(ribbons_[1], Rat(1, 2), Zero)

(***************************************************************************)
(* C7: gamma(0) = 0 with the remap on or off; with it on, gamma(d) is      *)
(* d/(2d+1) and is non-decreasing in d >= 0; with it off, gamma(d) = d.    *)
(***************************************************************************)
C7_Gamma ==
  result.fn = "gamma" =>
    LET d == sds[result.arg][2]
        g == result.value
    IN /\ d = Zero => g = Zero
       /\ result.flag =>
            /\ RMul(g, RAdd(RMul(Two, d), One)) = d
            /\ \A d1 \in Distances :
                 /\ RLeq(d1, d) => RLeq(gamma(d1, TRUE), g)
                 /\ RLeq(d, d1) => RLeq(g, gamma(d1, TRUE))
       /\ ~result.flag => g = d

\* gamma was called with the remap on at a distance above 1/2.
C7_Witness ==
  /\ result.fn = "gamma"
  /\ result.flag
  /\ RLess(Rat(1, 2), sds[result.arg][2])
  /\ RLess(Zero, result.value)
  /\ RLess(result.value, sds[result.arg][2])

====
